---------------------------- MODULE Spec2Model ----------------------------
(***************************************************************************)
(* Model of node_launcher.launch.py: the namespace resolver                *)
(* (get_node_config_and_ns), the path expander (expand_filenames), the     *)
(* remapping expander (get_remappings, get_remappings_for_actions) and the *)
(* launch step that calls them (configure).                                *)
(*                                                                         *)
(* Python strings are sequences of one-character strings, so that split,   *)
(* strip, concatenation and the two regular expressions are computed, not  *)
(* assumed.  A YAML value is a record [t, s, items]: t is the Python type, *)
(* s the text of a scalar and items the content of a dict or a list.  A    *)
(* dict is the sequence of its items in insertion order, each item a       *)
(* record [k, v].                                                          *)
(***************************************************************************)
EXTENDS Naturals, Sequences, FiniteSets

VARIABLES
    entry,           \* the function that was called
    pc,              \* position of the call in progress
    document,        \* the argument the entry point was called with
    yaml_config,     \* get_node_config_and_ns: argument of the current invocation
    namespace,       \* get_node_config_and_ns: namespace accumulated so far
    node_config,     \* first element returned by get_node_config_and_ns
    ros_parameters,  \* the parameter map (mutated in place by expand_filenames)
    remapping_list,  \* list returned by get_remappings
    lookups,         \* get_package_share_directory calls made, in order
    raised           \* the exception that ended the call, or NoError

vars == <<entry, pc, document, yaml_config, namespace, node_config, ros_parameters,
          remapping_list, lookups, raised>>

-----------------------------------------------------------------------------
(* Bounds of the model. *)

\* deepest nesting of the documents given to get_node_config_and_ns
MaxDepth == 3
\* most items in the lists of one remapping specification
MaxItems == 3
\* longest string tried as the single item of a section
MaxItemLen == 4
\* most namespace levels above the node in the files given to configure
MaxNamespace == 2
\* most pieces in a string value given to expand_filenames
MaxPieces == 4
\* most entries in a parameter map of several entries
MaxParams == 2

-----------------------------------------------------------------------------
(* Strings. *)

ros__parameters == <<"r","o","s","_","_","p","a","r","a","m","e","t","e","r","s">>
ros_execution == <<"r","o","s","_","e","x","e","c","u","t","i","o","n">>
ros_remappings == <<"r","o","s","_","r","e","m","a","p","p","i","n","g","s">>
node_package == <<"n","o","d","e","_","p","a","c","k","a","g","e">>
node_executable == <<"n","o","d","e","_","e","x","e","c","u","t","a","b","l","e">>
topics == <<"t","o","p","i","c","s">>
services == <<"s","e","r","v","i","c","e","s">>
actions == <<"a","c","t","i","o","n","s">>

\* "".join(parts) of a list of strings
RECURSIVE Concat(_)
Concat(parts) ==
    IF parts = <<>> THEN <<>> ELSE Head(parts) \o Concat(Tail(parts))

\* sep.join(parts)
RECURSIVE Join(_, _)
Join(parts, sep) ==
    IF parts = <<>> THEN <<>>
    ELSE IF Len(parts) = 1 THEN parts[1]
    ELSE parts[1] \o sep \o Join(Tail(parts), sep)

-----------------------------------------------------------------------------
(* YAML values as yaml.safe_load returns them. *)

Str(s) == [t |-> "str", s |-> s, items |-> <<>>]
Dict(items) == [t |-> "dict", s |-> <<>>, items |-> items]
List(items) == [t |-> "list", s |-> <<>>, items |-> items]
Int(digits) == [t |-> "int", s |-> digits, items |-> <<>>]
Bool(word) == [t |-> "bool", s |-> word, items |-> <<>>]
None == [t |-> "NoneType", s |-> <<>>, items |-> <<>>]
Item(key, value) == [k |-> key, v |-> value]

\* isinstance(x, dict), isinstance(x, str), isinstance(x, list), x is None
IsDict(x) == x.t = "dict"
IsStr(x) == x.t = "str"
IsList(x) == x.t = "list"
IsNone(x) == x.t = "NoneType"

\* list(d.keys())
KeysOf(d) == [i \in 1..Len(d.items) |-> d.items[i].k]
\* key in d
HasKey(d, key) == \E i \in 1..Len(d.items) : d.items[i].k = key
\* d[key]
Lookup(d, key) == d.items[CHOOSE i \in 1..Len(d.items) : d.items[i].k = key].v
\* d.get(key): None when the key is absent
Get(d, key) == IF HasKey(d, key) THEN Lookup(d, key) ELSE None

NoError == "none"

-----------------------------------------------------------------------------
(* get_node_config_and_ns: one invocation per step; the recursive call of  *)
(* the last line is the step to the next invocation.                       *)

\* isinstance(yaml_config, dict) and len(keys) == 1
HasOneKeyAs(config) == IF IsDict(config) THEN Len(KeysOf(config)) >= 1 ELSE FALSE
HasOneKey(config) == IF IsDict(config) THEN Len(KeysOf(config)) = 1 ELSE FALSE

current_key(config) == KeysOf(config)[1]
inner_yaml_config(config) == Lookup(config, current_key(config))

\* the conditions, tested in the code's order, under which an invocation
\* raises ValueError
NsRaises(config) ==
    IF ~HasOneKey(config) THEN TRUE
    ELSE IF ~IsDict(inner_yaml_config(config)) THEN TRUE
    ELSE IF HasKey(inner_yaml_config(config), ros__parameters)
         THEN ~IsDict(Lookup(inner_yaml_config(config), ros__parameters))
         ELSE FALSE

\* the invocation returns (yaml_config, namespace)
NsReturns(config) ==
    IF NsRaises(config) THEN FALSE
    ELSE HasKey(inner_yaml_config(config), ros__parameters)

next_namespaceAs(ns, key) == ns \o <<"/">> \o key
next_namespace(ns, key) == IF ns # <<>> THEN ns \o <<"/">> \o key ELSE key

NsRaise ==
    /\ pc = "get_node_config_and_ns"
    /\ NsRaises(yaml_config)
    /\ pc' = "raised"
    /\ raised' = "ValueError"
    /\ UNCHANGED <<entry, document, yaml_config, namespace, node_config,
                   ros_parameters, remapping_list, lookups>>

NsReturn ==
    /\ pc = "get_node_config_and_ns"
    /\ NsReturns(yaml_config)
    /\ pc' = "returned"
    /\ node_config' = yaml_config
    /\ UNCHANGED <<entry, document, yaml_config, namespace, ros_parameters,
                   remapping_list, lookups, raised>>

NsRecurse ==
    /\ pc = "get_node_config_and_ns"
    /\ ~NsRaises(yaml_config)
    /\ ~NsReturns(yaml_config)
    /\ yaml_config' = inner_yaml_config(yaml_config)
    /\ namespace' = next_namespace(namespace, current_key(yaml_config))
    /\ UNCHANGED <<entry, pc, document, node_config, ros_parameters,
                   remapping_list, lookups, raised>>

-----------------------------------------------------------------------------
(* Documents given to the resolver. *)

Empty == <<>>
KeyA == <<"a">>
KeyB == <<"b">>
KeyZ == <<"z">>

\* keys of the namespace chain
ChainKeys == {Empty, KeyA, ros__parameters}

\* what a chain can end in: a non-dict, an empty dict, and node bodies
Bodies ==
    { Str(KeyA),
      Dict(<<>>),
      Dict(<<Item(ros__parameters, Dict(<<>>))>>),
      Dict(<<Item(KeyB, Int(<<"1">>)),
             Item(ros__parameters, Dict(<<Item(KeyB, Int(<<"1">>))>>))>>),
      Dict(<<Item(ros__parameters, Str(KeyA))>>) }

\* a second item beside the chain's key
Siblings == { Item(KeyZ, Str(KeyA)), Item(ros__parameters, Dict(<<>>)) }

RECURSIVE DocsOfDepth(_)
DocsOfDepth(d) ==
    IF d = 0 THEN Bodies
    ELSE LET below == DocsOfDepth(d - 1)
         IN  below
             \cup { Dict(<<Item(k, v)>>) : k \in ChainKeys, v \in below }
             \cup UNION { { Dict(<<Item(k, v), s>>) : k \in ChainKeys \ {s.k}, v \in below } :
                           s \in Siblings }

InitNs ==
    /\ entry = "get_node_config_and_ns"
    /\ document \in DocsOfDepth(MaxDepth)
    /\ yaml_config = document
    /\ namespace = <<>>
    /\ pc = "get_node_config_and_ns"
    /\ node_config = None
    /\ ros_parameters = None
    /\ remapping_list = <<>>
    /\ lookups = <<>>
    /\ raised = NoError

NextNs == NsRaise \/ NsReturn \/ NsRecurse

SpecNs == InitNs /\ [][NextNs]_vars

Terminated == pc \in {"returned", "raised"}

\* The ways to read a document as a chain k1 -> ... -> kn -> node whose levels
\* have one key each and where the value under node is a mapping holding
\* 'ros__parameters' with a mapping as its value: the keys above node, node,
\* and the single-key mapping {node: ...}.
RECURSIVE ParsesFrom(_, _)
ParsesFrom(c, above) ==
    IF ~IsDict(c) THEN {}
    ELSE IF Len(c.items) # 1 THEN {}
    ELSE LET k == c.items[1].k
             v == c.items[1].v
             here == IF ~IsDict(v) THEN FALSE
                     ELSE IF ~HasKey(v, ros__parameters) THEN FALSE
                     ELSE IsDict(Lookup(v, ros__parameters))
         IN  (IF here THEN {[keys |-> above, node |-> k, mapping |-> c]} ELSE {})
             \cup ParsesFrom(v, Append(above, k))

ChainParses(doc) == ParsesFrom(doc, <<>>)

\* no key below the first is 'ros__parameters', and the first key is not the
\* empty string when a second namespace key follows it
PlainParse(p) ==
    /\ \A i \in 2..Len(p.keys) : p.keys[i] # ros__parameters
    /\ Len(p.keys) >= 1 => p.node # ros__parameters
    /\ Len(p.keys) >= 2 => p.keys[1] # <<>>

ReturnsParse(p) ==
    /\ pc = "returned"
    /\ raised = NoError
    /\ namespace = Join(p.keys, <<"/">>)
    /\ node_config = p.mapping

\* C1 as stated: for every chain of single-key mappings k1 -> ... -> kn -> node
\* (all string keys) ending in a node with a 'ros__parameters' mapping, the
\* call returns the namespace k1/.../kn and the mapping {node: ...}.
C1_AllKeys ==
    Terminated => \A p \in ChainParses(document) : ReturnsParse(p)

\* C1 amended: the same for the chains in which none of k2..kn and (for n >= 1)
\* node is 'ros__parameters', and k1 is not the empty string when n >= 2.
C1_PlainKeys ==
    Terminated =>
        \A p \in ChainParses(document) : PlainParse(p) => ReturnsParse(p)

\* a chain with two namespace keys was resolved
C1_Witness ==
    /\ pc = "returned"
    /\ \E p \in ChainParses(document) :
          /\ PlainParse(p)
          /\ Len(p.keys) = 2
          /\ namespace = p.keys[1] \o <<"/">> \o p.keys[2]

\* A mapping of the namespace chain (from the top level down to the mapping
\* keyed by the node name) has two or more keys.
RECURSIVE WideOnChain(_)
WideOnChain(c) ==
    IF ~IsDict(c) THEN FALSE
    ELSE IF Len(c.items) >= 2 THEN TRUE
    ELSE IF Len(c.items) = 0 THEN FALSE
    ELSE IF ~IsDict(c.items[1].v) THEN FALSE
    ELSE IF HasKey(c.items[1].v, ros__parameters) THEN FALSE
    ELSE WideOnChain(c.items[1].v)

\* C2: a document with two or more keys at a level of its namespace chain
\* makes the call raise; nothing is returned.
C2_WideLevelRaises ==
    (Terminated /\ WideOnChain(document)) =>
        (pc = "raised" /\ raised = "ValueError" /\ node_config = None)

\* the call raised on a two-key mapping below the top level
C2_Witness ==
    /\ pc = "raised"
    /\ WideOnChain(document)
    /\ Len(document.items) = 1
    /\ namespace # <<>>
    /\ Len(yaml_config.items) >= 2

-----------------------------------------------------------------------------
(* str.split and str.strip. *)

Whitespace == {" ", "\t", "\n"}

\* s.split(sep) for a one-character separator
RECURSIVE split(_, _)
split(s, sep) ==
    IF \A i \in 1..Len(s) : s[i] # sep THEN <<s>>
    ELSE LET i == CHOOSE j \in 1..Len(s) :
                      s[j] = sep /\ \A h \in 1..(j - 1) : s[h] # sep
         IN  <<SubSeq(s, 1, i - 1)>> \o split(SubSeq(s, i + 1, Len(s)), sep)

RECURSIVE lstrip(_)
lstrip(s) ==
    IF s = <<>> THEN s
    ELSE IF s[1] \in Whitespace THEN lstrip(Tail(s)) ELSE s

RECURSIVE rstrip(_)
rstrip(s) ==
    IF s = <<>> THEN s
    ELSE IF s[Len(s)] \in Whitespace THEN rstrip(SubSeq(s, 1, Len(s) - 1)) ELSE s

\* s.strip()
strip(s) == rstrip(lstrip(s))

-----------------------------------------------------------------------------
(* get_remappings and get_remappings_for_actions.  A call's outcome is the *)
(* exception it raised (or NoError) and the value it returned.             *)

Ok(value) == [raised |-> NoError, value |-> value]
ValueError == [raised |-> "ValueError", value |-> <<>>]

\* the three checks made on an item of a section, in the code's order
ItemRaisesAs(item) ==
    IF ~IsStr(item) THEN TRUE
    ELSE LET parts == split(item.s, ":")
         IN  IF Len(parts) < 2 THEN TRUE
             ELSE strip(parts[1]) = <<>> \/ strip(parts[2]) = <<>>
ItemRaises(item) ==
    IF ~IsStr(item) THEN TRUE
    ELSE LET parts == split(item.s, ":")
         IN  IF Len(parts) # 2 THEN TRUE
             ELSE strip(parts[1]) = <<>> \/ strip(parts[2]) = <<>>

\* (from_topic, to_topic) of an item that passed the checks
ItemPair(item) ==
    LET parts == split(item.s, ":")
    IN  <<strip(parts[1]), strip(parts[2])>>

\* the loop of parse_section over the items of a section
RECURSIVE parse_items(_)
parse_items(items) ==
    IF items = <<>> THEN Ok(<<>>)
    ELSE IF ItemRaises(Head(items)) THEN ValueError
    ELSE LET rest == parse_items(Tail(items))
         IN  IF rest.raised # NoError THEN rest
             ELSE Ok(<<ItemPair(Head(items))>> \o rest.value)

parse_sectionAs(spec, section_name) ==
    LET section == Get(spec, section_name)
    IN  IF ~IsList(section) THEN Ok(<<>>)
        ELSE parse_items(section.items)
parse_section(spec, section_name) ==
    LET section == Get(spec, section_name)
    IN  IF IsNone(section) THEN Ok(<<>>)
        ELSE IF ~IsList(section) THEN ValueError
        ELSE parse_items(section.items)

suffixesAs ==
    << <<"/","_","a","c","t","i","o","n","/","s","t","a","t","u","s">>,
       <<"/","_","a","c","t","i","o","n","/","f","e","e","d","b","a","c","k">>,
       <<"/","_","a","c","t","i","o","n","/","c","a","n","c","e","l","_","g","o","a","l">>,
       <<"/","_","a","c","t","i","o","n","/","g","e","t","_","r","e","s","u","l","t">>,
       <<"/","_","a","c","t","i","o","n","/","s","e","n","d","_","g","o","a","l">> >>
suffixes ==
    << <<"/","_","a","c","t","i","o","n","/","f","e","e","d","b","a","c","k">>,
       <<"/","_","a","c","t","i","o","n","/","s","t","a","t","u","s">>,
       <<"/","_","a","c","t","i","o","n","/","c","a","n","c","e","l","_","g","o","a","l">>,
       <<"/","_","a","c","t","i","o","n","/","g","e","t","_","r","e","s","u","l","t">>,
       <<"/","_","a","c","t","i","o","n","/","s","e","n","d","_","g","o","a","l">> >>

\* the inner loop: one (from_prefix + suffix, to_prefix + suffix) per suffix
ActionPairs(item) ==
    LET prefixes == ItemPair(item)
    IN  [j \in 1..Len(suffixes) |->
            <<prefixes[1] \o suffixes[j], prefixes[2] \o suffixes[j]>>]

\* the loop of get_remappings_for_actions over the items
RECURSIVE action_items(_)
action_items(items) ==
    IF items = <<>> THEN Ok(<<>>)
    ELSE IF ItemRaises(Head(items)) THEN ValueError
    ELSE LET rest == action_items(Tail(items))
         IN  IF rest.raised # NoError THEN rest
             ELSE Ok(ActionPairs(Head(items)) \o rest.value)

get_remappings_for_actions(actions_yaml) ==
    IF IsNone(actions_yaml) THEN Ok(<<>>)
    ELSE IF ~IsList(actions_yaml) THEN ValueError
    ELSE action_items(actions_yaml.items)

get_remappingsAs(spec) ==
    IF IsNone(spec) THEN Ok(<<>>)
    ELSE IF ~IsDict(spec) THEN ValueError
    ELSE LET s == parse_section(spec, services)
         IN  IF s.raised # NoError THEN s
             ELSE LET t == parse_section(spec, topics)
                  IN  IF t.raised # NoError THEN t
                      ELSE LET a == IF HasKey(spec, actions)
                                    THEN get_remappings_for_actions(Lookup(spec, actions))
                                    ELSE Ok(<<>>)
                           IN  IF a.raised # NoError THEN a
                               ELSE Ok(s.value \o t.value \o a.value)
get_remappings(spec) ==
    IF IsNone(spec) THEN Ok(<<>>)
    ELSE IF ~IsDict(spec) THEN ValueError
    ELSE LET t == parse_section(spec, topics)
         IN  IF t.raised # NoError THEN t
             ELSE LET s == parse_section(spec, services)
                  IN  IF s.raised # NoError THEN s
                      ELSE LET a == IF HasKey(spec, actions)
                                    THEN get_remappings_for_actions(Lookup(spec, actions))
                                    ELSE Ok(<<>>)
                           IN  IF a.raised # NoError THEN a
                               ELSE Ok(t.value \o s.value \o a.value)

\* a call of get_remappings(document)
CallGetRemappings ==
    /\ pc = "get_remappings"
    /\ LET r == get_remappings(document)
       IN  /\ raised' = r.raised
           /\ remapping_list' = r.value
           /\ pc' = IF r.raised = NoError THEN "returned" ELSE "raised"
    /\ UNCHANGED <<entry, document, yaml_config, namespace, node_config,
                   ros_parameters, lookups>>

\* a call of get_remappings_for_actions(document)
CallGetRemappingsForActions ==
    /\ pc = "get_remappings_for_actions"
    /\ LET r == get_remappings_for_actions(document)
       IN  /\ raised' = r.raised
           /\ remapping_list' = r.value
           /\ pc' = IF r.raised = NoError THEN "returned" ELSE "raised"
    /\ UNCHANGED <<entry, document, yaml_config, namespace, node_config,
                   ros_parameters, lookups>>

-----------------------------------------------------------------------------
(* Remapping specifications given to the remapping expander. *)

\* strings of at most n characters over an alphabet
RECURSIVE StringsUpTo(_, _)
StringsUpTo(alphabet, n) ==
    IF n = 0 THEN {<<>>}
    ELSE LET shorter == StringsUpTo(alphabet, n - 1)
         IN  shorter \cup {<<c>> \o s : c \in alphabet, s \in {x \in shorter : Len(x) = n - 1}}

\* items for the lists of several items
FewItems ==
    { Str(<<"a", ":", "b">>),
      Str(<<" ", "g", " ", ":", "h", "\t">>),
      Str(<<"a", ":", "b", ":", "c">>) }

\* items for the lists of one item: every short string over a, ':' and ' '
ManyItems(n) ==
    { Str(s) : s \in StringsUpTo({"a", ":", " "}, n) }
    \cup { Int(<<"1">>), None, Bool(<<"t","r","u","e">>), List(<<Str(<<"a", ":", "b">>)>>),
           Dict(<<Item(KeyA, Str(KeyB))>>) }

\* lists of exactly n items of FewItems
RECURSIVE ListsOf(_)
ListsOf(n) ==
    IF n = 0 THEN {<<>>}
    ELSE {<<x>> \o l : x \in FewItems, l \in ListsOf(n - 1)}

\* a present section that is not a list
NotLists ==
    { None, Str(<<"a", ":", "b">>), Int(<<"1">>), Bool(<<"t","r","u","e">>),
      Dict(<<Item(KeyA, Str(KeyB))>>) }

\* the items of a dict for one section: none when its list budget is negative;
\* <<>> stands for an absent section
SectionChoices(name, n) ==
    {<<>>} \cup {<<Item(name, x)>> : x \in NotLists}
           \cup {<<Item(name, List(l))>> : l \in UNION {ListsOf(m) : m \in 0..n}}

RemappingDicts(n) ==
    UNION { UNION { { Dict(t \o s \o a) : a \in SectionChoices(actions, n - nt - ns),
                                           t \in {x \in SectionChoices(topics, nt) :
                                                    x = <<>> \/ ~IsList(x[1].v) \/ Len(x[1].v.items) = nt},
                                           s \in {x \in SectionChoices(services, ns) :
                                                    x = <<>> \/ ~IsList(x[1].v) \/ Len(x[1].v.items) = ns} } :
                    ns \in 0..(n - nt) } :
            nt \in 0..n }

OneItemDicts(n) ==
    { Dict(<<Item(name, List(<<x>>))>>) : name \in {topics, services, actions}, x \in ManyItems(n) }

RemappingSpecs(items, len) ==
    {None, Str(KeyA), List(<<Str(<<"a", ":", "b">>)>>)}
    \cup RemappingDicts(items) \cup OneItemDicts(len)

ActionsArguments(items, len) ==
    NotLists \cup {List(l) : l \in UNION {ListsOf(m) : m \in 0..items}}
             \cup {List(<<x>>) : x \in ManyItems(len)}

InitRemap ==
    /\ \/ entry = "get_remappings" /\ document \in RemappingSpecs(MaxItems, MaxItemLen)
       \/ entry = "get_remappings_for_actions" /\ document \in ActionsArguments(MaxItems, MaxItemLen)
    /\ pc = entry
    /\ yaml_config = None
    /\ namespace = <<>>
    /\ node_config = None
    /\ ros_parameters = None
    /\ remapping_list = <<>>
    /\ lookups = <<>>
    /\ raised = NoError

NextRemap == CallGetRemappings \/ CallGetRemappingsForActions

SpecRemap == InitRemap /\ [][NextRemap]_vars

-----------------------------------------------------------------------------
(* The remapping claims, in the claims' own terms. *)

\* number of ':' in a string
Colons(s) == Cardinality({i \in 1..Len(s) : s[i] = ":"})

\* a string without its leading and trailing whitespace
Trim(s) ==
    LET keep == {i \in 1..Len(s) : s[i] \notin Whitespace}
    IN  IF keep = {} THEN <<>>
        ELSE SubSeq(s, CHOOSE i \in keep : \A j \in keep : i <= j,
                       CHOOSE i \in keep : \A j \in keep : i >= j)

ColonAt(s) == CHOOSE i \in 1..Len(s) : s[i] = ":"
FromSide(s) == Trim(SubSeq(s, 1, ColonAt(s) - 1))
ToSide(s) == Trim(SubSeq(s, ColonAt(s) + 1, Len(s)))

\* a string with exactly one ':' and two sides that are not empty once trimmed
WellFormed(item) ==
    IF ~IsStr(item) THEN FALSE
    ELSE IF Colons(item.s) # 1 THEN FALSE
    ELSE FromSide(item.s) # <<>> /\ ToSide(item.s) # <<>>

PairOf(item) == <<FromSide(item.s), ToSide(item.s)>>

FiveSuffixes ==
    [j \in 1..5 |->
        <<"/","_","a","c","t","i","o","n","/">> \o
        << <<"f","e","e","d","b","a","c","k">>,
           <<"s","t","a","t","u","s">>,
           <<"c","a","n","c","e","l","_","g","o","a","l">>,
           <<"g","e","t","_","r","e","s","u","l","t">>,
           <<"s","e","n","d","_","g","o","a","l">> >>[j]]

FanOut(item) ==
    [j \in 1..5 |-> <<FromSide(item.s) \o FiveSuffixes[j], ToSide(item.s) \o FiveSuffixes[j]>>]

SectionNames == {topics, services, actions}

\* the items of a section of the specification; none when the section is
\* absent or is not a list
ItemsOf(name) ==
    IF ~HasKey(document, name) THEN <<>>
    ELSE IF ~IsList(Lookup(document, name)) THEN <<>>
    ELSE Lookup(document, name).items

AllWellFormed(items) == \A i \in 1..Len(items) : WellFormed(items[i])

\* every section is absent or a list, and every item of every list is well formed
ValidSpec ==
    IF ~IsDict(document) THEN FALSE
    ELSE \A name \in SectionNames :
            /\ HasKey(document, name) => IsList(Lookup(document, name))
            /\ AllWellFormed(ItemsOf(name))

Failed == pc = "raised" /\ raised = "ValueError" /\ remapping_list = <<>>
Succeeded == pc = "returned" /\ raised = NoError

\* C3: for a valid actions list get_remappings_for_actions returns five pairs
\* per item, items in input order, suffixes in the fixed order.
C3_FiveInOrder ==
    (/\ entry = "get_remappings_for_actions"
     /\ Terminated
     /\ IsList(document)
     /\ AllWellFormed(document.items))
    => /\ Succeeded
       /\ Len(remapping_list) = 5 * Len(document.items)
       /\ \A i \in 1..Len(document.items) : \A j \in 1..5 :
             remapping_list[5 * (i - 1) + j] = FanOut(document.items[i])[j]

\* two action items were fanned out
C3_Witness ==
    /\ entry = "get_remappings_for_actions"
    /\ pc = "returned"
    /\ IsList(document)
    /\ Len(document.items) = 2
    /\ Len(remapping_list) = 10
    /\ remapping_list[1] # remapping_list[6]

C5_SectionsInOrder ==
    (entry = "get_remappings" /\ Terminated) =>
       /\ IsNone(document) => (Succeeded /\ remapping_list = <<>>)
       /\ ValidSpec =>
             /\ Succeeded
             /\ remapping_list =
                   [i \in 1..Len(ItemsOf(topics)) |-> PairOf(ItemsOf(topics)[i])]
                   \o [i \in 1..Len(ItemsOf(services)) |-> PairOf(ItemsOf(services)[i])]
                   \o Concat([i \in 1..Len(ItemsOf(actions)) |-> FanOut(ItemsOf(actions)[i])])

\* a specification with items in all three sections was expanded
C5_Witness ==
    /\ entry = "get_remappings"
    /\ pc = "returned"
    /\ ValidSpec
    /\ \A name \in SectionNames : Len(ItemsOf(name)) = 1
    /\ ItemsOf(topics) # ItemsOf(services)
    /\ Len(remapping_list) = 7

\* a section that is present and whose value is not a list
NotAList(name) ==
    IF ~HasKey(document, name) THEN FALSE ELSE ~IsList(Lookup(document, name))

\* C6 as stated: a present section whose value is not a list (null included)
\* makes get_remappings raise.
C6_NotAListRaises ==
    (/\ entry = "get_remappings"
     /\ Terminated
     /\ IsDict(document)
     /\ \E name \in SectionNames : NotAList(name))
    => Failed

\* C6 amended: a present section whose value is neither a list nor null makes
\* get_remappings raise; a null section counts as an absent one, so a
\* specification whose sections are all null or absent gives the empty list.
C6_NotAListNorNullRaises ==
    (entry = "get_remappings" /\ Terminated /\ IsDict(document)) =>
       /\ (\E name \in SectionNames :
              NotAList(name) /\ ~IsNone(Lookup(document, name))) => Failed
       /\ (\A name \in SectionNames :
              HasKey(document, name) => IsNone(Lookup(document, name)))
          => (Succeeded /\ remapping_list = <<>>)

\* the call raised on a section that is a mapping, after a valid topics list
C6_Witness ==
    /\ entry = "get_remappings"
    /\ pc = "raised"
    /\ IsDict(document)
    /\ Len(ItemsOf(topics)) >= 1
    /\ AllWellFormed(ItemsOf(topics))
    /\ NotAList(services)
    /\ IsDict(Lookup(document, services))
    /\ ~HasKey(document, actions)

-----------------------------------------------------------------------------
(* The two regular expressions of expand_filenames, searched as re.search  *)
(* does: the leftmost position at which the pattern matches, each group    *)
(* greedy.  '.' is every character but the line break.                     *)

PackageScheme == <<"p","a","c","k","a","g","e",":","/","/">>
FileScheme == <<"f","i","l","e",":","/","/">>

NoMatch == [found |-> FALSE, group1 |-> <<>>, group2 |-> <<>>]

\* the literal lit stands at position p of s
HasAt(s, p, lit) ==
    IF p + Len(lit) - 1 > Len(s) THEN FALSE
    ELSE SubSeq(s, p, p + Len(lit) - 1) = lit

\* end of the longest run of '.' characters that starts at r
DotPlusEnd(s, r) ==
    CHOOSE e \in r..Len(s) :
        /\ \A i \in r..e : s[i] # "\n"
        /\ e < Len(s) => s[e + 1] = "\n"

\* pattern1 = package://([^/]+)/(.+) matched at position p
pattern1(s, p) ==
    LET q == p + Len(PackageScheme)
        slashes == {e \in q..Len(s) : s[e] = "/"}
    IN  IF ~HasAt(s, p, PackageScheme) THEN NoMatch
        ELSE IF slashes = {} THEN NoMatch
        ELSE LET e == CHOOSE x \in slashes : \A y \in slashes : x <= y
             IN  IF e = q THEN NoMatch
                 ELSE IF e + 1 > Len(s) THEN NoMatch
                 ELSE IF s[e + 1] = "\n" THEN NoMatch
                 ELSE [found |-> TRUE,
                       group1 |-> SubSeq(s, q, e - 1),
                       group2 |-> SubSeq(s, e + 1, DotPlusEnd(s, e + 1))]

\* pattern2 = file://(/.+) matched at position p
pattern2As(s, p) ==
    LET q == p + Len(FileScheme)
    IN  IF ~HasAt(s, p, FileScheme) THEN NoMatch
        ELSE IF q > Len(s) THEN NoMatch
        ELSE IF s[q] = "\n" THEN NoMatch
        ELSE [found |-> TRUE,
              group1 |-> SubSeq(s, q, DotPlusEnd(s, q)),
              group2 |-> <<>>]
pattern2(s, p) ==
    LET q == p + Len(FileScheme)
    IN  IF ~HasAt(s, p, FileScheme \o <<"/">>) THEN NoMatch
        ELSE IF q + 1 > Len(s) THEN NoMatch
        ELSE IF s[q + 1] = "\n" THEN NoMatch
        ELSE [found |-> TRUE,
              group1 |-> SubSeq(s, q, DotPlusEnd(s, q + 1)),
              group2 |-> <<>>]

\* re.search(pattern1, s), re.search(pattern2, s): the match at the leftmost
\* position that has one
re_search1(s) ==
    LET starts == {p \in 1..Len(s) : pattern1(s, p).found}
    IN  IF starts = {} THEN NoMatch
        ELSE pattern1(s, CHOOSE p \in starts : \A x \in starts : p <= x)

re_search2(s) ==
    LET starts == {p \in 1..Len(s) : pattern2(s, p).found}
    IN  IF starts = {} THEN NoMatch
        ELSE pattern2(s, CHOOSE p \in starts : \A x \in starts : p <= x)

\* os.path.join(a, b) of posixpath
os_path_join(a, b) ==
    IF HasAt(b, 1, <<"/">>) THEN b
    ELSE IF a = <<>> THEN b
    ELSE IF a[Len(a)] = "/" THEN a \o b
    ELSE a \o <<"/">> \o b

-----------------------------------------------------------------------------
(* get_package_share_directory: the package index of the machine. *)

Foo == <<"f","o","o">>
Bar == <<"b","a","r">>
OptFoo == <<"/","o","p","t","/","f","o","o">>

\* the installed packages and their share directories
share_directory == [name \in {Foo} |-> OptFoo]

-----------------------------------------------------------------------------
(* expand_filenames.  The outcome of expanding a value or the items of a   *)
(* dict: the value or items as left in place, the exception raised, and    *)
(* the package lookups made.                                               *)

Outcome(value, exception, calls) == [v |-> value, raised |-> exception, lookups |-> calls]

\* lines 137-141: the value matched pattern1
expand_package(value, match1) ==
    IF match1.group1 \in DOMAIN share_directory
    THEN Outcome(Str(os_path_join(share_directory[match1.group1], match1.group2)),
                 NoError, <<match1.group1>>)
    ELSE Outcome(value, "PackageNotFoundError", <<match1.group1>>)

\* lines 135-146: the two patterns, tested in this order
rewriteAs(value, match1, match2) ==
    IF match2.found THEN Outcome(Str(match2.group1), NoError, <<>>)
    ELSE IF match1.found THEN expand_package(value, match1)
    ELSE Outcome(value, NoError, <<>>)
rewrite(value, match1, match2) ==
    IF match1.found THEN expand_package(value, match1)
    ELSE IF match2.found THEN Outcome(Str(match2.group1), NoError, <<>>)
    ELSE Outcome(value, NoError, <<>>)

\* lines 132-146: the value of one entry that is not a dict
expand_value(value) ==
    IF ~IsStr(value) THEN Outcome(value, NoError, <<>>)
    ELSE rewrite(value, re_search1(value.s), re_search2(value.s))

\* the outcome of the recursive call on a dict value, as the outcome for
\* that value
AsDict(r) == Outcome(Dict(r.items), r.raised, r.lookups)

\* the entry just visited, put before what the loop made of the others
Visited(key, first, rest) ==
    [items |-> <<Item(key, first.v)>> \o rest.items,
     raised |-> rest.raised,
     lookups |-> first.lookups \o rest.lookups]

RECURSIVE expand_items(_)

\* an exception raised at an entry ends the loop and leaves the entries after
\* it as they were; otherwise the loop goes on with them
Visit(key, first, others) ==
    IF first.raised # NoError
    THEN [items |-> <<Item(key, first.v)>> \o others,
          raised |-> first.raised,
          lookups |-> first.lookups]
    ELSE Visited(key, first, expand_items(others))

\* the loop over yaml_parameters.items(), with the recursive call for a dict
\* value
expand_items(items) ==
    IF items = <<>> THEN [items |-> <<>>, raised |-> NoError, lookups |-> <<>>]
    ELSE IF IsDict(Head(items).v)
    THEN Visit(Head(items).k, AsDict(expand_items(Head(items).v.items)), Tail(items))
    ELSE Visit(Head(items).k, expand_value(Head(items).v), Tail(items))

\* expand_filenames(yaml_parameters): yaml_parameters as the call leaves it
expand_filenames(yaml_parameters) ==
    IF ~IsDict(yaml_parameters) THEN Outcome(yaml_parameters, NoError, <<>>)
    ELSE AsDict(expand_items(yaml_parameters.items))

\* the state a call of expand_filenames(ros_parameters) ends in
Expanded(r, done) ==
    /\ ros_parameters' = r.v
    /\ lookups' = lookups \o r.lookups
    /\ raised' = r.raised
    /\ pc' = IF r.raised = NoError THEN done ELSE "raised"

\* a call of expand_filenames(ros_parameters)
CallExpandFilenames ==
    /\ pc = "expand_filenames"
    /\ Expanded(expand_filenames(ros_parameters), "returned")
    /\ UNCHANGED <<entry, document, yaml_config, namespace, node_config, remapping_list>>

\* a second call on the map the first call returned
CallExpandFilenamesAgain ==
    /\ entry = "expand_filenames"
    /\ pc = "returned"
    /\ Expanded(expand_filenames(ros_parameters), "returned twice")
    /\ UNCHANGED <<entry, document, yaml_config, namespace, node_config, remapping_list>>

-----------------------------------------------------------------------------
(* Parameter maps given to the path expander. *)

Pieces ==
    { PackageScheme \o Foo \o <<"/">>,
      PackageScheme \o Bar \o <<"/">>,
      FileScheme,
      <<"/">>,
      <<"x">>,
      <<"\n">> }

\* strings made of at most n pieces
RECURSIVE PieceStrings(_)
PieceStrings(n) ==
    IF n = 0 THEN {<<>>}
    ELSE LET shorter == PieceStrings(n - 1)
         IN  shorter \cup {piece \o s : piece \in Pieces, s \in shorter}

\* a scheme without a package name, and one without a '/' after the name
BareSchemes ==
    { PackageScheme \o <<"/", "x">>, PackageScheme \o <<"x">>,
      <<"x">> \o PackageScheme \o <<"/", "/", "x">> }

KeyP == <<"p">>
KeyQ == <<"q">>

\* maps of one string entry
OneStringMaps(n) ==
    { Dict(<<Item(KeyP, Str(s))>>) : s \in PieceStrings(n) \cup BareSchemes }

PlainValues ==
    { Int(<<"1">>), Bool(<<"t","r","u","e">>), None,
      List(<<Str(PackageScheme \o Foo \o <<"/", "x">>), Str(FileScheme \o <<"/", "x">>)>>),
      Str(<<"x">>),
      Str(PackageScheme \o Foo \o <<"/", "x">>),
      Str(PackageScheme \o Bar \o <<"/", "x">>),
      Str(FileScheme \o <<"/", "x">>) }

NestedValues ==
    PlainValues
    \cup { Dict(<<Item(KeyQ, v)>>) : v \in PlainValues }
    \cup { Dict(<<Item(KeyQ, Dict(<<Item(KeyP, v)>>)), Item(KeyP, v)>>) : v \in PlainValues }

\* lists of exactly n entries with the keys p1, p2, ...
RECURSIVE EntriesOf(_)
EntriesOf(n) ==
    IF n = 0 THEN {<<>>}
    ELSE {l \o <<Item(<<"p", "0">> \o [i \in 1..n |-> "1"], v)>> :
             l \in EntriesOf(n - 1), v \in NestedValues}

SeveralEntryMaps(n) == { Dict(l) : l \in UNION {EntriesOf(m) : m \in 0..n} }

ParameterMaps(pieces, params) ==
    {None, Str(FileScheme \o <<"/", "x">>)}
    \cup OneStringMaps(pieces) \cup SeveralEntryMaps(params)

InitExpand ==
    /\ entry = "expand_filenames"
    /\ pc = entry
    /\ document \in ParameterMaps(MaxPieces, MaxParams)
    /\ ros_parameters = document
    /\ yaml_config = None
    /\ namespace = <<>>
    /\ node_config = None
    /\ remapping_list = <<>>
    /\ lookups = <<>>
    /\ raised = NoError

NextExpand == CallExpandFilenames \/ CallExpandFilenamesAgain

SpecExpand == InitExpand /\ [][NextExpand]_vars

-----------------------------------------------------------------------------
(* The path expansion claims, in the claims' own terms. *)

\* the last position of the line that position r is on
EndOfLine(s, r) ==
    LET breaks == {i \in r..Len(s) : s[i] = "\n"}
    IN  IF breaks = {} THEN Len(s)
        ELSE (CHOOSE i \in breaks : \A j \in breaks : i <= j) - 1

Least(S) == CHOOSE p \in S : \A x \in S : p <= x

\* the '/' that ends the package name of a 'package://' standing at p
NameEnd(s, p) ==
    Least({e \in (p + Len(PackageScheme))..Len(s) : s[e] = "/"})

\* positions of s at which 'package://<pkg>/<rest>' stands: pkg is one or
\* more characters other than '/', rest one or more characters of its line
PackageStarts(s) ==
    {p \in 1..Len(s) :
        /\ HasAt(s, p, PackageScheme)
        /\ \E e \in (p + Len(PackageScheme) + 1)..(Len(s) - 1) :
              /\ s[e] = "/"
              /\ \A i \in (p + Len(PackageScheme))..(e - 1) : s[i] # "/"
              /\ s[e + 1] # "\n"}

PackageName(s) ==
    LET p == Least(PackageStarts(s))
    IN  SubSeq(s, p + Len(PackageScheme), NameEnd(s, p) - 1)

PackageRest(s) ==
    LET e == NameEnd(s, Least(PackageStarts(s)))
    IN  SubSeq(s, e + 1, EndOfLine(s, e + 1))

\* positions of s at which 'file://' stands followed by a '/'
FileStartsAnyPath(s) == {p \in 1..Len(s) : HasAt(s, p, FileScheme \o <<"/">>)}

\* the path that follows the first of them, taken to the end of the string
FileAnyPath(s) == SubSeq(s, Least(FileStartsAnyPath(s)) + Len(FileScheme), Len(s))

\* positions of s at which 'file://' stands followed by a '/' and at least
\* one more character of the same line
FileStarts(s) ==
    {p \in FileStartsAnyPath(s) :
        IF p + Len(FileScheme) + 1 > Len(s) THEN FALSE
        ELSE s[p + Len(FileScheme) + 1] # "\n"}

\* the path that follows the first of them, taken to the end of its line
FilePath(s) ==
    LET q == Least(FileStarts(s)) + Len(FileScheme)
    IN  SubSeq(s, q, EndOfLine(s, q + 1))

\* Every entry of a map at every mapping depth, in iteration order: the keys
\* that lead to it and its value (for a dict value, only that it is a dict).
RECURSIVE Walk(_, _)
Walk(items, path) ==
    IF items = <<>> THEN <<>>
    ELSE IF IsDict(Head(items).v)
    THEN <<[path |-> Append(path, Head(items).k), value |-> Dict(<<>>)]>>
         \o Walk(Head(items).v.items, Append(path, Head(items).k))
         \o Walk(Tail(items), path)
    ELSE <<[path |-> Append(path, Head(items).k), value |-> Head(items).v]>>
         \o Walk(Tail(items), path)

EntriesBefore == IF IsDict(document) THEN Walk(document.items, <<>>) ELSE <<>>
EntriesAfter == IF IsDict(ros_parameters) THEN Walk(ros_parameters.items, <<>>) ELSE <<>>

\* the map has the keys it had, at every depth
SameKeys ==
    /\ IsDict(ros_parameters) = IsDict(document)
    /\ Len(EntriesAfter) = Len(EntriesBefore)
    /\ \A i \in 1..Len(EntriesBefore) :
          /\ EntriesAfter[i].path = EntriesBefore[i].path
          /\ IsDict(EntriesAfter[i].value) = IsDict(EntriesBefore[i].value)

FirstCallReturned == entry = "expand_filenames" /\ pc = "returned"

\* the value after the call of the entry that held value b before it
AfterOf(i) == IF i <= Len(EntriesAfter) THEN EntriesAfter[i].value ELSE None

\* C7: a string value in which 'package://<pkg>/<rest>' occurs, at any
\* mapping depth, becomes the directory the lookup gives for pkg, then '/',
\* then rest: a path inside the package directory.
C7_PathInsidePackage ==
    FirstCallReturned =>
        \A i \in 1..Len(EntriesBefore) :
            LET b == EntriesBefore[i].value
            IN  IF ~IsStr(b) THEN TRUE
                ELSE IF PackageStarts(b.s) = {} THEN TRUE
                ELSE IF PackageName(b.s) \notin DOMAIN share_directory THEN TRUE
                ELSE AfterOf(i) =
                        Str(share_directory[PackageName(b.s)] \o <<"/">> \o PackageRest(b.s))

\* the names of the packages of the string values in which the package
\* pattern occurs, in iteration order
RECURSIVE PackageNames(_)
PackageNames(entries) ==
    IF entries = <<>> THEN <<>>
    ELSE IF ~IsStr(Head(entries).value) THEN PackageNames(Tail(entries))
    ELSE IF PackageStarts(Head(entries).value.s) = {} THEN PackageNames(Tail(entries))
    ELSE <<PackageName(Head(entries).value.s)>> \o PackageNames(Tail(entries))

\* C8 as stated: a string value without the package pattern that holds
\* 'file://' followed by a path starting with '/' becomes exactly that path.
C8_AnyFilePath ==
    FirstCallReturned =>
        \A i \in 1..Len(EntriesBefore) :
            LET b == EntriesBefore[i].value
            IN  IF ~IsStr(b) THEN TRUE
                ELSE IF PackageStarts(b.s) # {} THEN TRUE
                ELSE IF FileStartsAnyPath(b.s) = {} THEN TRUE
                ELSE AfterOf(i) = Str(FileAnyPath(b.s))

\* C8 amended: a string value without the package pattern that holds
\* 'file://' followed by '/' and at least one more character of the same line
\* becomes that path up to the end of its line; package lookups are made for
\* the values with the package pattern and for no other; a value with both
\* patterns is rewritten by the package rule.
C8_FilePathOfLine ==
    FirstCallReturned =>
        /\ lookups = PackageNames(EntriesBefore)
        /\ \A i \in 1..Len(EntriesBefore) :
              LET b == EntriesBefore[i].value
              IN  IF ~IsStr(b) THEN TRUE
                  ELSE IF FileStarts(b.s) = {} THEN TRUE
                  ELSE IF PackageStarts(b.s) = {} THEN AfterOf(i) = Str(FilePath(b.s))
                  ELSE AfterOf(i) = expand_package(b, [found |-> TRUE,
                                                        group1 |-> PackageName(b.s),
                                                        group2 |-> PackageRest(b.s)]).v

\* a file value was rewritten beside a package value
C8_Witness ==
    /\ FirstCallReturned
    /\ lookups = <<Foo>>
    /\ \E i \in 1..Len(EntriesBefore) :
          LET b == EntriesBefore[i].value
          IN  IF ~IsStr(b) THEN FALSE
              ELSE /\ FileStarts(b.s) # {}
                   /\ PackageStarts(b.s) = {}
                   /\ AfterOf(i) # b

\* a value the call has to leave alone: a number, a boolean, null, a list, or
\* a string in which neither pattern occurs
LeftAlone(b) ==
    IF IsDict(b) THEN FALSE
    ELSE IF ~IsStr(b) THEN TRUE
    ELSE PackageStarts(b.s) = {} /\ FileStarts(b.s) = {}

\* C9: the call changes no number, boolean, list or string without a pattern,
\* and no key at any depth; a map whose string values hold no pattern is left
\* as it was by one call and by two.
C9_FrameAndIdentity ==
    entry = "expand_filenames" =>
        /\ SameKeys
        /\ \A i \in 1..Len(EntriesBefore) :
              LeftAlone(EntriesBefore[i].value) => AfterOf(i) = EntriesBefore[i].value
        /\ (\A i \in 1..Len(EntriesBefore) :
               IsDict(EntriesBefore[i].value) \/ LeftAlone(EntriesBefore[i].value))
           => (ros_parameters = document /\ raised = NoError /\ lookups = <<>>)

\* two calls were made on a map whose strings hold no pattern outside a list
C9_Witness ==
    /\ entry = "expand_filenames"
    /\ pc = "returned twice"
    /\ \E i \in 1..Len(EntriesBefore) : IsList(EntriesBefore[i].value)
    /\ \E i \in 1..Len(EntriesBefore) : IsStr(EntriesBefore[i].value)
    /\ \A i \in 1..Len(EntriesBefore) :
          IsDict(EntriesBefore[i].value) \/ LeftAlone(EntriesBefore[i].value)

-----------------------------------------------------------------------------
(* configure: the launch step.  Its positions are load_ros_node_config,    *)
(* the invocations of get_node_config_and_ns, and then the steps below.    *)

node_name(config) == current_key(config)

\* load_yaml_config: the checks made on the parsed content of the file
load_yaml_config(data) ==
    IF IsNone(data) THEN ValueError
    ELSE IF ~IsDict(data) THEN ValueError
    ELSE Ok(data)

\* the steps of configure that follow the return of load_ros_node_config, in
\* the order of the code
stepsAs == <<"ros_execution", "expand_filenames", "get_remappings", "Node">>
steps == <<"ros_execution", "get_remappings", "expand_filenames", "Node">>

\* the step after step, or the end of configure
following(step) ==
    LET i == CHOOSE j \in 1..Len(steps) : steps[j] = step
    IN  IF i < Len(steps) THEN steps[i + 1] ELSE "return actions"

\* not value, for the values a YAML document can hold
Falsy(value) ==
    IF IsNone(value) THEN TRUE
    ELSE IF IsStr(value) THEN value.s = <<>>
    ELSE IF value.t = "int" THEN value.s = <<"0">>
    ELSE IF value.t = "bool" THEN value.s = <<"F", "a", "l", "s", "e">>
    ELSE value.items = <<>>

\* the conditions under which the checks of ros_execution raise ValueError
RosExecutionRaises(parameters) ==
    IF ~IsDict(Get(parameters, ros_execution)) THEN TRUE
    ELSE IF Falsy(Get(Get(parameters, ros_execution), node_package)) THEN TRUE
    ELSE Falsy(Get(Get(parameters, ros_execution), node_executable))

\* "ros_remappings" in ros_parameters and ros_parameters["ros_remappings"] is not None
HasRemappings(parameters) ==
    IF HasKey(parameters, ros_remappings)
    THEN ~IsNone(Lookup(parameters, ros_remappings))
    ELSE FALSE

\* the call of load_ros_node_config up to its call of get_node_config_and_ns
LoadRosNodeConfig ==
    /\ entry = "configure"
    /\ pc = "load_ros_node_config"
    /\ LET r == load_yaml_config(document)
       IN  IF r.raised # NoError
           THEN /\ pc' = "raised"
                /\ raised' = r.raised
                /\ UNCHANGED yaml_config
           ELSE /\ pc' = "get_node_config_and_ns"
                /\ yaml_config' = r.value
                /\ UNCHANGED raised
    /\ UNCHANGED <<entry, document, namespace, node_config, ros_parameters,
                   remapping_list, lookups>>

\* node_name, ros_parameters, and the checks of ros_execution
CheckRosExecution ==
    /\ entry = "configure"
    /\ pc = "returned"
    /\ ros_parameters' = Lookup(Lookup(node_config, node_name(node_config)), ros__parameters)
    /\ IF RosExecutionRaises(ros_parameters')
       THEN pc' = "raised" /\ raised' = "ValueError"
       ELSE pc' = following("ros_execution") /\ UNCHANGED raised
    /\ UNCHANGED <<entry, document, yaml_config, namespace, node_config,
                   remapping_list, lookups>>

\* remapping_list = [] and the conditional call of get_remappings
Remappings ==
    /\ entry = "configure"
    /\ pc = "get_remappings"
    /\ IF HasRemappings(ros_parameters)
       THEN LET r == get_remappings(Lookup(ros_parameters, ros_remappings))
            IN  /\ raised' = r.raised
                /\ remapping_list' = r.value
                /\ pc' = IF r.raised = NoError THEN following("get_remappings") ELSE "raised"
       ELSE /\ remapping_list' = <<>>
            /\ pc' = following("get_remappings")
            /\ UNCHANGED raised
    /\ UNCHANGED <<entry, document, yaml_config, namespace, node_config,
                   ros_parameters, lookups>>

\* expand_filenames(ros_parameters)
ExpandParameters ==
    /\ entry = "configure"
    /\ pc = "expand_filenames"
    /\ Expanded(expand_filenames(ros_parameters), following("expand_filenames"))
    /\ UNCHANGED <<entry, document, yaml_config, namespace, node_config, remapping_list>>

\* Node(namespace, name, parameters=[ros_parameters], remappings=remapping_list, ...)
LaunchNode ==
    /\ entry = "configure"
    /\ pc = "Node"
    /\ pc' = following("Node")
    /\ UNCHANGED <<entry, document, yaml_config, namespace, node_config,
                   ros_parameters, remapping_list, lookups, raised>>

-----------------------------------------------------------------------------
(* Configuration files given to configure. *)

KeyN == <<"n">>
Talker == <<"t">>

\* values of ros_execution
Executions ==
    { None,
      Str(Talker),
      Dict(<<Item(node_package, Str(Foo))>>),
      Dict(<<Item(node_package, Str(Foo)), Item(node_executable, Str(<<>>))>>),
      Dict(<<Item(node_package, Str(Foo)), Item(node_executable, Str(Talker))>>) }

\* values of ros_remappings
RemappingSections ==
    { None,
      Str(KeyA),
      Dict(<<>>),
      Dict(<<Item(topics, List(<<Str(<<"a", ":", "b">>)>>))>>),
      Dict(<<Item(topics, List(<<Str(<<"a", ":", "b">>)>>)),
             Item(actions, List(<<Str(<<"g", ":", "h">>)>>))>>),
      Dict(<<Item(topics, List(<<Str(<<"a", ":", "b", ":", "c">>)>>))>>),
      Dict(<<Item(services, List(<<Str(<<"a", ":", "b">>), Int(<<"1">>)>>))>>) }

\* values of a parameter of the node
PathValues ==
    { Int(<<"1">>),
      Str(<<"x">>),
      Str(PackageScheme \o Foo \o <<"/", "x">>),
      Str(PackageScheme \o Bar \o <<"/", "x">>),
      Str(FileScheme \o <<"/", "x">>) }

\* the items a parameter block can be made of
Optional(key, values) == {<<>>} \cup { <<Item(key, v)>> : v \in values }

ParameterBlocks ==
    { Dict(e \o r \o p) : e \in Optional(ros_execution, Executions),
                          r \in Optional(ros_remappings, RemappingSections),
                          p \in Optional(KeyP, PathValues) }

RECURSIVE Under(_, _)
Under(depth, docs) ==
    IF depth = 0 THEN docs
    ELSE docs \cup Under(depth - 1, { Dict(<<Item(KeyA, d)>>) : d \in docs })

ConfigFiles(depth) ==
    {None, List(<<>>), Dict(<<>>)}
    \cup Under(depth, { Dict(<<Item(KeyN, Dict(<<Item(ros__parameters, b)>>))>>) :
                          b \in ParameterBlocks })

InitConfigure ==
    /\ entry = "configure"
    /\ pc = "load_ros_node_config"
    /\ document \in ConfigFiles(MaxNamespace)
    /\ yaml_config = None
    /\ namespace = <<>>
    /\ node_config = None
    /\ ros_parameters = None
    /\ remapping_list = <<>>
    /\ lookups = <<>>
    /\ raised = NoError

NextConfigure ==
    \/ LoadRosNodeConfig
    \/ NsRaise
    \/ NsReturn
    \/ NsRecurse
    \/ CheckRosExecution
    \/ Remappings
    \/ ExpandParameters
    \/ LaunchNode

SpecConfigure == InitConfigure /\ [][NextConfigure]_vars

-----------------------------------------------------------------------------
(* The claim about configure. *)

\* the parameter block of a configuration file that the resolver accepts
RECURSIVE BlockOf(_)
BlockOf(doc) ==
    IF HasKey(Lookup(doc, KeysOf(doc)[1]), ros__parameters)
    THEN Lookup(Lookup(doc, KeysOf(doc)[1]), ros__parameters)
    ELSE BlockOf(Lookup(doc, KeysOf(doc)[1]))

Resolved == entry = "configure" /\ node_config # None

\* the block names a package and an executable in ros_execution
Executable(block) ==
    IF ~HasKey(block, ros_execution) THEN FALSE
    ELSE IF ~IsDict(Lookup(block, ros_execution)) THEN FALSE
    ELSE /\ ~Falsy(Get(Lookup(block, ros_execution), node_package))
         /\ ~Falsy(Get(Lookup(block, ros_execution), node_executable))

\* a string value of the block names a package that is not installed
UnknownPackage(block) ==
    \E i \in 1..Len(block.items) :
        LET b == block.items[i].v
        IN  IF ~IsStr(b) THEN FALSE
            ELSE IF PackageStarts(b.s) = {} THEN FALSE
            ELSE PackageName(b.s) \notin DOMAIN share_directory

\* a string value of the block names an installed package
KnownPackage(block) ==
    \E i \in 1..Len(block.items) :
        LET b == block.items[i].v
        IN  IF ~IsStr(b) THEN FALSE
            ELSE IF PackageStarts(b.s) = {} THEN FALSE
            ELSE PackageName(b.s) \in DOMAIN share_directory

\* the remapping section of the block is a mapping with a section that is a
\* list with an entry that is not a string or has not exactly one ':'
MalformedEntry(block) ==
    IF ~HasKey(block, ros_remappings) THEN FALSE
    ELSE IF ~IsDict(Lookup(block, ros_remappings)) THEN FALSE
    ELSE \E i \in 1..Len(Lookup(block, ros_remappings).items) :
            LET section == Lookup(block, ros_remappings).items[i].v
            IN  IF ~IsList(section) THEN FALSE
                ELSE \E j \in 1..Len(section.items) :
                        IF ~IsStr(section.items[j]) THEN TRUE
                        ELSE Cardinality({c \in 1..Len(section.items[j].s) :
                                             section.items[j].s[c] = ":"}) # 1

\* the remapping section of the block is a mapping whose topics are a list
\* with an entry
TopicEntries(block) ==
    IF ~HasKey(block, ros_remappings) THEN FALSE
    ELSE IF ~IsDict(Lookup(block, ros_remappings)) THEN FALSE
    ELSE IF ~HasKey(Lookup(block, ros_remappings), topics) THEN FALSE
    ELSE IF ~IsList(Lookup(Lookup(block, ros_remappings), topics)) THEN FALSE
    ELSE Lookup(Lookup(block, ros_remappings), topics).items # <<>>

\* C10 as stated: path expansion runs before remapping expansion: once the
\* remapping list has entries the package lookups have been made, and a
\* configuration file with both an unknown package and a malformed remapping
\* entry fails with the package-not-found error.
C10_ExpansionThenRemappings ==
    Resolved =>
        /\ (remapping_list # <<>> /\ KnownPackage(BlockOf(document))) => lookups # <<>>
        /\ (/\ pc = "raised"
            /\ Executable(BlockOf(document))
            /\ UnknownPackage(BlockOf(document))
            /\ MalformedEntry(BlockOf(document)))
           => raised = "PackageNotFoundError"

\* C10 amended: remapping expansion runs before path expansion: once a
\* package lookup has been made the remapping list has its entries, and a
\* configuration file, valid but for an unknown package and a malformed
\* remapping entry, fails with the remapping validation error, no path of
\* the parameter block expanded and no package looked up.
C10_RemappingsThenExpansion ==
    Resolved =>
        /\ (lookups # <<>> /\ TopicEntries(BlockOf(document))) => remapping_list # <<>>
        /\ (/\ pc = "raised"
            /\ Executable(BlockOf(document))
            /\ UnknownPackage(BlockOf(document))
            /\ MalformedEntry(BlockOf(document)))
           => (/\ raised = "ValueError"
               /\ lookups = <<>>
               /\ ros_parameters = BlockOf(document))

\* a call on a file with an unknown package and a malformed entry has failed
C10_Witness ==
    /\ Resolved
    /\ pc = "raised"
    /\ namespace # <<>>
    /\ Executable(BlockOf(document))
    /\ UnknownPackage(BlockOf(document))
    /\ MalformedEntry(BlockOf(document))

=============================================================================
